---- MODULE Spec2Model ----
(***************************************************************************)
(* youtube-video-checker: the HTTP handler of main.go (staleness check,    *)
(* refresh, store, copy, render) run by concurrent workers over the shared *)
(* cachedVideos / lastFetch / mu, and fetchLatestVideos (per-channel       *)
(* search, enrichment of upcoming videos in batches, sort).                *)
(*                                                                         *)
(* Slices are references into a heap of backing arrays, so that aliasing   *)
(* (cachedVideos = videos) and copying (copy(toRender, cachedVideos)) are  *)
(* different things.  Time is counted in units of cacheDuration.           *)
(***************************************************************************)
EXTENDS Integers, Sequences, FiniteSets, TLC

(* ------------------------------ bounds -------------------------------- *)
\* the clock runs from 0 to MaxTime
MaxTime == 3
\* requests handled in one behaviour of Spec
MaxRequests == 3
\* search items received by one fetchLatestVideos call in SpecFetch
MaxItems == 2
\* batch size handed to splitChunks by fetchLatestVideos: 50 in the source
\* (main.go:167), scaled down so that several batches occur within MaxItems
BatchLimit == 1

\* the requests the handler receives where every request must get through
MaxLiveRequests == 2

\* how far the clock runs there
MaxLiveTime == 1

\* the longest list of ids given to splitChunks
MaxLen == 5

\* the largest chunk size given to splitChunks
MaxChunk == 3

(* ------------------------- program constants -------------------------- *)
\* cacheDuration = 10 * time.Minute; the clock unit is ten minutes
cacheDuration == 1
\* the zero time.Time, the value of an unset ScheduledStartTime
ZeroTime == 0
\* a nil slice
Nil == 0

\* the hard-coded channel ids
channelIDs == <<"UC3MBGrjXHkLqo0Bs4CktzpQ", "UCj0LLFUIn-bjKHRQ6mqCb2w", "UC7zHiHZaO-ftaTTUZwHJIQg">>

\* the workers (goroutines of net/http) that run the handler
Workers == {"w1", "w2"}
NoOne == "none"

(* ------------------------------ data ---------------------------------- *)
VideoIds == {"v1", "v2"}
LiveStatuses == {"none", "live", "upcoming"}
\* publishedAt / scheduledStartTime strings as the platform sends them
TimeStrings == {"2025-05-01T10:00:00Z", "2025-05-02T10:00:00Z", "yesterday"}
SchedStrings == {"", "2025-05-09T18:00:00Z", "soon"}

\* time.Parse(time.RFC3339, s): [ok, t], t the instant in hours since
\* 2025-05-01T00:00:00Z
ParseRFC3339(s) ==
    CASE s = "2025-05-01T10:00:00Z" -> [ok |-> TRUE, t |-> 10]
      [] s = "2025-05-02T10:00:00Z" -> [ok |-> TRUE, t |-> 34]
      [] s = "2025-05-09T18:00:00Z" -> [ok |-> TRUE, t |-> 210]
      [] OTHER -> [ok |-> FALSE, t |-> ZeroTime]

\* schedUTC.In(time.Local): the same instant in another location
InLocal(t) == t

\* what the platform returns about one video: title and thumbnail
TitleOf(id) == "Title of " \o id
ThumbnailOf(id) == "https://i.ytimg.com/vi/" \o id \o "/hqdefault.jpg"

\* search result items (item.Id.VideoId, item.Snippet.*)
SearchItems ==
    { [VideoId |-> id, Title |-> TitleOf(id), Thumbnail |-> ThumbnailOf(id),
       PublishedAt |-> p, LiveBroadcastContent |-> l] :
        id \in VideoIds, p \in TimeStrings, l \in LiveStatuses }


\* video detail items: Id, LiveStreamingDetails (nil or not) and its
\* ScheduledStartTime
DetailItems ==
    { [Id |-> id, HasDetails |-> h, ScheduledStartTime |-> s] :
        id \in VideoIds, h \in BOOLEAN, s \in SchedStrings }
    \ { d \in [Id : VideoIds, HasDetails : {FALSE}, ScheduledStartTime : SchedStrings] :
          d.ScheduledStartTime # "" }

\* sequences over S of length at most n
SeqUpTo(S, n) == UNION { [1..k -> S] : k \in 0..n }

\* a response of Search.List(...).Do() or Videos.List(...).Do()
Failed == [err |-> TRUE, Items |-> <<>>]
Answer(items) == [err |-> FALSE, Items |-> items]
Response(S, n) == {Failed} \cup { Answer(its) : its \in SeqUpTo(S, n) }

\* the upstream of Spec: the search of the first channel fails or finds an
\* older video and a newer, upcoming one; the search of the second fails or
\* finds nothing, the search of the others finds nothing; a detail lookup
\* fails or returns the start time of the upcoming video
HandlerSearchResponses(channelID) ==
    IF channelID = "UC3MBGrjXHkLqo0Bs4CktzpQ"
    THEN {Failed} \cup
         { Answer(<<older, newer>>) :
             older \in { x \in SearchItems :
                           /\ x.VideoId = "v1"
                           /\ x.PublishedAt = "2025-05-01T10:00:00Z"
                           /\ x.LiveBroadcastContent = "none" },
             newer \in { x \in SearchItems :
                           /\ x.VideoId = "v2"
                           /\ x.PublishedAt = "2025-05-02T10:00:00Z"
                           /\ x.LiveBroadcastContent = "upcoming" } }
    ELSE IF channelID = "UCj0LLFUIn-bjKHRQ6mqCb2w"
    THEN {Failed, Answer(<<>>)}
    ELSE {Answer(<<>>)}

HandlerDetailResponses ==
    {Failed} \cup
    { Answer(<<d>>) : d \in { x \in DetailItems :
                                 /\ x.Id = "v2" /\ x.HasDetails
                                 /\ x.ScheduledStartTime = "2025-05-09T18:00:00Z" } }

\* the channels the platform knows, with their titles
PlatformChannels ==
    [c \in {channelIDs[1], channelIDs[2]} |->
        IF c = channelIDs[1] THEN "Bez Schematu" ELSE "Krzysztof M. Maj"]

\* channelNames as main builds it; a channel the platform did not return
\* has no entry
ChannelDirectories == {PlatformChannels}

\* channelNames[channelID]: the zero value "" for a missing key
NameOf(names, channelID) ==
    IF channelID \in DOMAIN names THEN names[channelID] ELSE ""

WatchURL(id) == "https://www.youtube.com/watch?v=" \o id

\* the Video appended for a search item whose publishedAt parsed to pubTime
NewVideo(item, names, channelID, pubTime) ==
    [VideoID |-> item.VideoId,
     Channel |-> NameOf(names, channelID),
     Title |-> item.Title,
     Thumbnail |-> item.Thumbnail,
     URL |-> WatchURL(item.VideoId),
     Published |-> pubTime,
     LiveStatus |-> item.LiveBroadcastContent,
     ScheduledStartTime |-> ZeroTime]

(* ------------------- fetchLatestVideos, loop by loop ------------------- *)
\* faulty variant: an unparsable publishedAt ends the loop (break for continue)
RECURSIVE AppendItems_StopsAtBadTime(_, _, _, _)
AppendItems_StopsAtBadTime(videos, items, names, channelID) ==
    IF items = <<>> THEN videos
    ELSE LET item == Head(items)
             p == ParseRFC3339(item.PublishedAt)
         IN  IF ~p.ok
             THEN videos
             ELSE AppendItems_StopsAtBadTime(
                      Append(videos, NewVideo(item, names, channelID, p.t)),
                      Tail(items), names, channelID)

\* the inner loop over searchResp.Items: a video per item whose publishedAt
\* parses, the others skipped
RECURSIVE AppendItems(_, _, _, _)
AppendItems(videos, items, names, channelID) ==
    IF items = <<>> THEN videos
    ELSE LET item == Head(items)
             p == ParseRFC3339(item.PublishedAt)
         IN  IF ~p.ok
             THEN AppendItems(videos, Tail(items), names, channelID)
             ELSE AppendItems(Append(videos, NewVideo(item, names, channelID, p.t)),
                              Tail(items), names, channelID)

\* the ids of the upcoming videos, in the order of videos
RECURSIVE UpcomingIDs(_)
UpcomingIDs(videos) ==
    IF videos = <<>> THEN <<>>
    ELSE IF Head(videos).LiveStatus = "upcoming"
         THEN <<Head(videos).VideoID>> \o UpcomingIDs(Tail(videos))
         ELSE UpcomingIDs(Tail(videos))

\* faulty variant: the loop stops where a whole chunk no longer fits
RECURSIVE splitChunksFrom_WholeOnly(_, _, _)
splitChunksFrom_WholeOnly(ids, n, i) ==
    IF ~(i + n <= Len(ids)) THEN <<>>
    ELSE <<SubSeq(ids, i + 1, i + n)>> \o splitChunksFrom_WholeOnly(ids, n, i + n)

\* splitChunks(ids, n)
RECURSIVE splitChunksFrom(_, _, _)
splitChunksFrom(ids, n, i) ==
    IF ~(i < Len(ids)) THEN <<>>
    ELSE LET end == IF i + n > Len(ids) THEN Len(ids) ELSE i + n
         IN  <<SubSeq(ids, i + 1, end)>> \o splitChunksFrom(ids, n, i + n)

splitChunks(ids, n) == splitChunksFrom(ids, n, 0)

\* the loop `for i := range videos` with its break: the first video with
\* that id gets the time
RECURSIVE SetFirstMatch(_, _, _, _)
SetFirstMatch(videos, i, id, localSched) ==
    IF i > Len(videos) THEN videos
    ELSE IF videos[i].VideoID = id
         THEN [videos EXCEPT ![i].ScheduledStartTime = localSched]
         ELSE SetFirstMatch(videos, i + 1, id, localSched)

\* the loop over videoResp.Items of one batch's response
RECURSIVE ApplyDetails(_, _)
ApplyDetails(videos, items) ==
    IF items = <<>> THEN videos
    ELSE LET item == Head(items)
         IN  IF item.HasDetails /\ item.ScheduledStartTime # ""
             THEN LET p == ParseRFC3339(item.ScheduledStartTime)
                  IN  IF ~p.ok
                      THEN ApplyDetails(videos, Tail(items))
                      ELSE ApplyDetails(SetFirstMatch(videos, 1, item.Id, InLocal(p.t)),
                                        Tail(items))
             ELSE ApplyDetails(videos, Tail(items))

\* faulty variant: oldest first
Less_Ascending(a, b) == a.Published < b.Published

\* less(i, j) of the sort.Slice call
Less(a, b) == a.Published > b.Published

\* sort.Slice on a slice of at most 12 elements is the insertion sort of
\* package sort: each element moves left while it is less than the one
\* before it
RECURSIVE InsertLeft(_, _)
InsertLeft(s, j) ==
    IF j > 1 /\ Less(s[j], s[j - 1])
    THEN InsertLeft([s EXCEPT ![j] = s[j - 1], ![j - 1] = s[j]], j - 1)
    ELSE s

RECURSIVE InsertionSortFrom(_, _)
InsertionSortFrom(s, i) ==
    IF i > Len(s) THEN s ELSE InsertionSortFrom(InsertLeft(s, i), i + 1)

\* faulty variant: the sort left out
SortSlice_LeftOut(videos) == videos

SortSlice(videos) == InsertionSortFrom(videos, 2)

\* fetchLatestVideos as a whole, against an upstream svc that answers the
\* search of channel c with svc.search[c] and the detail lookup of a batch
\* with svc.details[batch]: the loop over channelIDs with its early return, the
\* loop over the batches of upcoming ids, the sort
RECURSIVE SearchLoop(_, _, _, _, _)
SearchLoop(videos, ids, i, search, names) ==
    IF i > Len(ids) THEN [err |-> FALSE, videos |-> videos]
    ELSE IF search[ids[i]].err THEN [err |-> TRUE, videos |-> <<>>]
    ELSE SearchLoop(AppendItems(videos, search[ids[i]].Items, names, ids[i]),
                    ids, i + 1, search, names)

RECURSIVE DetailLoop(_, _, _, _)
DetailLoop(videos, batchList, k, details) ==
    IF k > Len(batchList) THEN videos
    ELSE DetailLoop(IF details[batchList[k]].err THEN videos
                    ELSE ApplyDetails(videos, details[batchList[k]].Items),
                    batchList, k + 1, details)

FetchLatestVideos(svc, names, ids) ==
    LET s == SearchLoop(<<>>, ids, 1, svc.search, names)
        upcomingIDs == UpcomingIDs(s.videos)
    IN  IF s.err THEN s
        ELSE [err |-> FALSE,
              videos |-> SortSlice(IF Len(upcomingIDs) > 0
                                   THEN DetailLoop(s.videos, splitChunks(upcomingIDs, BatchLimit),
                                                   1, svc.details)
                                   ELSE s.videos)]

(* ------------------------------ state --------------------------------- *)
VARIABLES
    now,            \* the wall clock (time.Now())
    channelNames,   \* the map main builds before it registers the handler
    mu,             \* the worker holding mu, or NoOne
    cachedVideos,   \* the global slice: a reference into heap, or Nil
    lastFetch,      \* the global time of the last store
    heap,           \* backing arrays of the slices, by reference
    reqCount,       \* requests accepted so far
    pc,             \* per worker: the line of main.go it is about to run
    needRefresh,    \* per worker: the handler's local needRefresh
    videos,         \* per worker: fetchLatestVideos' videos / the handler's videos
    chanIdx,        \* per worker: position of the loop over channelIDs
    batches,        \* per worker: the batches of upcoming ids
    batchIdx,       \* per worker: position of the loop over batches
    fetchErr,       \* per worker: fetchLatestVideos returned an error
    toRender,       \* per worker: the handler's toRender slice
    response,       \* per worker: what the http.ResponseWriter has received
    calls,          \* per worker: the upstream calls of this request, with their responses
    copied,         \* per worker: what cachedVideos held when this request copied it
    lastInvoked,    \* when fetchLatestVideos was last called, or Never
    stored,         \* the snapshots stored to cachedVideos so far
    storedSince,    \* per worker, while it is in its refresh: a store was
                    \* completed since its staleness check
    lastFailure,    \* the refreshes that failed since the last completed store
    main,           \* func main: its position, what it has set up, how it ended
    splitCall,      \* a call of splitChunks on its own: its arguments and its result
    storeCount,     \* how many times line 103 has run
    ownStore,       \* per worker: which of these runs was the one of this request, or 0
    copiedStore,    \* per worker: how many had run when this request made its copy, or 0
    fetchOrder      \* the requests whose fetchLatestVideos has made its last
                    \* upstream call and that have not stored yet, in the order
                    \* of those calls, with "cached" where the fetch of the
                    \* snapshot in cachedVideos comes in that order

vars == <<now, channelNames, mu, cachedVideos, lastFetch, heap, reqCount, pc,
          needRefresh, videos, chanIdx, batches, batchIdx, fetchErr, toRender,
          response, calls, copied, lastInvoked, stored, storedSince, lastFailure, main,
          fetchOrder, splitCall, storeCount, ownStore, copiedStore>>

locals == <<needRefresh, videos, chanIdx, batches, batchIdx, fetchErr, toRender,
            response, calls, copied>>

\* one array for cachedVideos and two for each worker (videos, toRender)
Refs == 1..(1 + 2 * Cardinality(Workers))

Deref(h, ref) == IF ref = Nil THEN <<>> ELSE h[ref]

\* the arrays some slice refers to
Roots(cv, vs, tr) == ({cv} \cup {vs[w] : w \in Workers} \cup {tr[w] : w \in Workers}) \ {Nil}

\* a fresh array
Alloc(cv, vs, tr) == CHOOSE ref \in Refs \ Roots(cv, vs, tr) :
                        \A other \in Refs \ Roots(cv, vs, tr) : ref <= other

\* the arrays no slice refers to any more are reclaimed
Collect(h, roots) == [ref \in DOMAIN h |-> IF ref \in roots THEN h[ref] ELSE <<>>]

\* no time: fetchLatestVideos has not been called
Never == -1

\* an http.ResponseWriter nothing was written to
NoResponse == [status |-> 0, body |-> <<>>]

\* w.WriteHeader(code): superfluous once the header is out
WriteHeader(w, code) == IF w.status = 0 THEN [w EXCEPT !.status = code] ELSE w

\* w.Write(chunk): sends the header with 200 if it is not out yet
Write(w, chunk) ==
    LET h == WriteHeader(w, 200) IN [h EXCEPT !.body = Append(h.body, chunk)]

\* http.Error(w, msg, code)
HttpError(w, msg, code) == Write(WriteHeader(w, code), [kind |-> "error", text |-> msg])

\* faulty variant: lastFetch = time.Now()
InitialLastFetch_Now(t) == t

\* lastFetch = time.Now().Add(-2 * cacheDuration)
InitialLastFetch(t) == t - 2 * cacheDuration

\* main has come to ListenAndServe: everything is set up, the server listens
Serving ==
    [pc |-> "serving", env |-> "key", dotenv |-> "missing", apiKey |-> "key",
     tmpl |-> TRUE, svc |-> TRUE,
     chunk |-> Len(splitChunks(channelIDs, BatchLimit)) + 1,
     handler |-> TRUE, listening |-> TRUE, failed |-> ""]

\* splitChunks is not being called on its own
NoSplit == [ids |-> <<>>, n |-> 0, chunks |-> <<>>, returned |-> FALSE]

Init ==
    /\ main = Serving
    /\ now = 0
    /\ channelNames \in ChannelDirectories
    /\ mu = NoOne
    /\ cachedVideos = Nil
    /\ lastFetch = InitialLastFetch(now)
    /\ heap = [ref \in Refs |-> <<>>]
    /\ reqCount = 0
    /\ pc = [r \in Workers |-> "idle"]
    /\ needRefresh = [r \in Workers |-> FALSE]
    /\ videos = [r \in Workers |-> Nil]
    /\ chanIdx = [r \in Workers |-> 0]
    /\ batches = [r \in Workers |-> <<>>]
    /\ batchIdx = [r \in Workers |-> 0]
    /\ fetchErr = [r \in Workers |-> FALSE]
    /\ toRender = [r \in Workers |-> Nil]
    /\ response = [r \in Workers |-> NoResponse]
    /\ calls = [r \in Workers |-> <<>>]
    /\ copied = [r \in Workers |-> <<>>]
    /\ lastInvoked = Never
    /\ stored = {}
    /\ storedSince = [r \in Workers |-> FALSE]
    /\ lastFailure = "none"
    /\ fetchOrder = <<>>
    /\ storeCount = 0
    /\ ownStore = [r \in Workers |-> 0]
    /\ copiedStore = [r \in Workers |-> 0]
    /\ splitCall = NoSplit

(* ------------------------------ func main ----------------------------- *)
\* the zero time.Time of the package variable lastFetch, on the clock of the
\* handler: long before the process started
LongAgo == -100

\* the values of YOUTUBE_API_KEY in the environment of the process, and what
\* there is of a .env file
EnvValues == {"", "key"}
DotenvFiles == {"missing", "empty", "key"}

\* the process has just started: nothing is set up
Starting(env, dotenv) ==
    [pc |-> "L45", env |-> env, dotenv |-> dotenv, apiKey |-> "",
     tmpl |-> FALSE, svc |-> FALSE, chunk |-> 0,
     handler |-> FALSE, listening |-> FALSE, failed |-> ""]

\* log.Fatal / log.Fatalf: os.Exit(1) at once
Fatal(m, what) == [m EXCEPT !.pc = "exited", !.failed = what]

\* what stays as it is while main sets up: the handler is not running
handlerState == <<mu, cachedVideos, heap, reqCount, pc, locals, lastInvoked, stored,
                  storedSince, lastFailure, fetchOrder>>

\* lines 45-47: godotenv.Load() sets the variables of .env that the
\* environment does not have; without a .env it only logs
LoadEnv45 ==
    /\ main.pc = "L45"
    /\ main' = [main EXCEPT !.pc = "L50",
                            !.env = IF @ = "" /\ main.dotenv = "key" THEN "key" ELSE @]
    /\ UNCHANGED <<now, channelNames, lastFetch, handlerState, splitCall, storeCount, ownStore, copiedStore>>

\* lines 50-53: template.ParseFiles, fatal when it fails
ParseFiles50(ok) ==
    /\ main.pc = "L50"
    /\ main' = IF ok THEN [main EXCEPT !.pc = "L55", !.tmpl = TRUE]
               ELSE Fatal(main, "template")
    /\ UNCHANGED <<now, channelNames, lastFetch, handlerState, splitCall, storeCount, ownStore, copiedStore>>

\* lines 55-58: the credential check
Getenv55 ==
    /\ main.pc = "L55"
    /\ main' = IF main.env = "" THEN Fatal(main, "credential")
               ELSE [main EXCEPT !.pc = "L68", !.apiKey = main.env]
    /\ UNCHANGED <<now, channelNames, lastFetch, handlerState, splitCall, storeCount, ownStore, copiedStore>>

\* lines 67-75: youtube.NewService, fatal when it fails; then
\* channelNames := make(map[string]string) and the chunks of channelIDs
NewService68(ok) ==
    /\ main.pc = "L68"
    /\ main' = IF ok THEN [main EXCEPT !.pc = "L77", !.svc = TRUE, !.chunk = 1]
               ELSE Fatal(main, "service")
    /\ UNCHANGED <<now, channelNames, lastFetch, handlerState, splitCall, storeCount, ownStore, copiedStore>>

\* the answers of Channels.List for a chunk: an error, or the channels of
\* the chunk that the platform knows
RECURSIVE ChannelItems(_)
ChannelItems(chunk) ==
    IF chunk = <<>> THEN <<>>
    ELSE (IF Head(chunk) \in DOMAIN PlatformChannels
          THEN <<[Id |-> Head(chunk), Title |-> PlatformChannels[Head(chunk)]]>>
          ELSE <<>>) \o ChannelItems(Tail(chunk))

ChannelsResponses(chunk) == {Failed, Answer(ChannelItems(chunk))}

\* the loop of lines 82-84: channelNames[ch.Id] = ch.Snippet.Title
RECURSIVE PutNames(_, _)
PutNames(names, items) ==
    IF items = <<>> THEN names
    ELSE PutNames([c \in DOMAIN names \cup {Head(items).Id} |->
                      IF c = Head(items).Id THEN Head(items).Title ELSE names[c]],
                  Tail(items))

\* faulty variant: a failed Channels.List is logged and the loop goes on
Channels77_LogsAndGoesOn(resp) ==
    /\ main.pc = "L77"
    /\ LET chunks == splitChunks(channelIDs, BatchLimit)
       IN  /\ main' = [main EXCEPT !.chunk = @ + 1,
                                   !.pc = IF main.chunk = Len(chunks) THEN "L88" ELSE "L77"]
           /\ channelNames' = IF resp.err THEN channelNames
                              ELSE PutNames(channelNames, resp.Items)
    /\ UNCHANGED <<now, lastFetch, handlerState, splitCall, storeCount, ownStore, copiedStore>>

\* lines 76-85, one round of the loop over the chunks of channelIDs: the
\* Channels.List call, fatal when it fails, its titles put into channelNames
Channels77(resp) ==
    /\ main.pc = "L77"
    /\ LET chunks == splitChunks(channelIDs, BatchLimit)
       IN  IF resp.err
           THEN /\ main' = Fatal(main, "channels")
                /\ UNCHANGED channelNames
           ELSE /\ main' = [main EXCEPT !.chunk = @ + 1,
                                        !.pc = IF main.chunk = Len(chunks) THEN "L88" ELSE "L77"]
                /\ channelNames' = PutNames(channelNames, resp.Items)
    /\ UNCHANGED <<now, lastFetch, handlerState, splitCall, storeCount, ownStore, copiedStore>>

\* line 88: lastFetch = time.Now().Add(-2 * cacheDuration)
SetLastFetch88 ==
    /\ main.pc = "L88"
    /\ lastFetch' = InitialLastFetch(now)
    /\ main' = [main EXCEPT !.pc = "L90"]
    /\ UNCHANGED <<now, channelNames, handlerState, splitCall, storeCount, ownStore, copiedStore>>

\* lines 90-116: http.HandleFunc("/", ...) registers the handler
HandleFunc90 ==
    /\ main.pc = "L90"
    /\ main' = [main EXCEPT !.pc = "L119", !.handler = TRUE]
    /\ UNCHANGED <<now, channelNames, lastFetch, handlerState, splitCall, storeCount, ownStore, copiedStore>>

\* lines 118-119: http.ListenAndServe listens and serves, or returns its
\* error to log.Fatal
ListenAndServe119(ok) ==
    /\ main.pc = "L119"
    /\ main' = IF ok THEN [main EXCEPT !.pc = "serving", !.listening = TRUE]
               ELSE Fatal(main, "listen")
    /\ UNCHANGED <<now, channelNames, lastFetch, handlerState, splitCall, storeCount, ownStore, copiedStore>>

(* ----------------------------- the handler ---------------------------- *)
\* net/http accepts a request and runs the handler on a free worker
HandleRequest(r, maxRequests) ==
    /\ main.listening /\ main.handler
    /\ pc[r] = "idle"
    /\ reqCount < maxRequests
    /\ reqCount' = reqCount + 1
    /\ pc' = [pc EXCEPT ![r] = "L91"]
    /\ UNCHANGED <<now, channelNames, mu, cachedVideos, lastFetch, heap, locals, lastInvoked, stored, storedSince, lastFailure, main, fetchOrder, splitCall, storeCount, ownStore, copiedStore>>

\* mu.Lock() of line 91, 102 or 108
Lock(r, at, next) ==
    /\ pc[r] = at
    /\ mu = NoOne
    /\ mu' = r
    /\ pc' = [pc EXCEPT ![r] = next]
    /\ UNCHANGED <<now, channelNames, cachedVideos, lastFetch, heap, reqCount, locals, lastInvoked, stored, storedSince, lastFailure, main, fetchOrder, splitCall, storeCount, ownStore, copiedStore>>

Lock91(r) == Lock(r, "L91", "L92")

\* faulty variant: no caching, every request refreshes
Stale_Always(t, last) == TRUE

\* faulty variant: the boundary counted as stale
Stale_AtBoundary(t, last) == t - last >= cacheDuration

\* faulty variant: the window counted from the last call of fetchLatestVideos,
\* failed or not
Stale_SinceLastAttempt(t, last) ==
    t - last > cacheDuration /\ (lastInvoked = Never \/ t - lastInvoked > cacheDuration)

\* time.Since(lastFetch) > cacheDuration
Stale(t, last) == t - last > cacheDuration

\* faulty variant: fetchLatestVideos builds its result in the array of cachedVideos
\* (videos := cachedVideos[:0]) instead of a fresh one
Check92_ReusesCachedArray(r) ==
    /\ pc[r] = "L92"
    /\ needRefresh' = [needRefresh EXCEPT ![r] = Stale(now, lastFetch)]
    /\ mu' = NoOne
    /\ IF Stale(now, lastFetch)
       THEN /\ videos' = [videos EXCEPT ![r] = cachedVideos]
            /\ heap' = IF cachedVideos = Nil THEN heap ELSE [heap EXCEPT ![cachedVideos] = <<>>]
            /\ chanIdx' = [chanIdx EXCEPT ![r] = 1]
            /\ lastInvoked' = now
            /\ pc' = [pc EXCEPT ![r] = "L131"]
       ELSE /\ pc' = [pc EXCEPT ![r] = "L108"]
            /\ UNCHANGED <<videos, chanIdx, lastInvoked, heap>>
    /\ UNCHANGED <<now, channelNames, cachedVideos, lastFetch, reqCount, batches,
                   batchIdx, fetchErr, toRender, response, calls, copied, stored, storedSince, lastFailure, main, fetchOrder, splitCall, storeCount, ownStore, copiedStore>>

\* faulty variant: mu.Unlock() deferred, so that mu is held through the call of
\* fetchLatestVideos
Check92_UnlocksAfterFetch(r) ==
    /\ pc[r] = "L92"
    /\ needRefresh' = [needRefresh EXCEPT ![r] = Stale(now, lastFetch)]
    /\ mu' = IF Stale(now, lastFetch) THEN mu ELSE NoOne
    /\ IF Stale(now, lastFetch)
       THEN /\ videos' = [videos EXCEPT ![r] = Nil]
            /\ chanIdx' = [chanIdx EXCEPT ![r] = 1]
            /\ lastInvoked' = now
            /\ pc' = [pc EXCEPT ![r] = "L131"]
       ELSE /\ pc' = [pc EXCEPT ![r] = "L108"]
            /\ UNCHANGED <<videos, chanIdx, lastInvoked>>
    /\ UNCHANGED <<now, channelNames, cachedVideos, lastFetch, heap, reqCount, batches,
                   batchIdx, fetchErr, toRender, response, calls, copied, stored, storedSince, lastFailure, main, fetchOrder, splitCall, storeCount, ownStore, copiedStore>>

\* lines 92-96: the staleness test, mu.Unlock(), and when stale the call of
\* fetchLatestVideos, which starts with var videos []Video
Check92(r) ==
    /\ pc[r] = "L92"
    /\ needRefresh' = [needRefresh EXCEPT ![r] = Stale(now, lastFetch)]
    /\ mu' = NoOne
    /\ IF Stale(now, lastFetch)
       THEN /\ videos' = [videos EXCEPT ![r] = Nil]
            /\ chanIdx' = [chanIdx EXCEPT ![r] = 1]
            /\ lastInvoked' = now
            /\ pc' = [pc EXCEPT ![r] = "L131"]
       ELSE /\ pc' = [pc EXCEPT ![r] = "L108"]
            /\ UNCHANGED <<videos, chanIdx, lastInvoked>>
    /\ UNCHANGED <<now, channelNames, cachedVideos, lastFetch, heap, reqCount, batches,
                   batchIdx, fetchErr, toRender, response, calls, copied, stored, storedSince, lastFailure, main, fetchOrder, splitCall, storeCount, ownStore, copiedStore>>

\* search items this request has received so far
RECURSIVE Received(_)
Received(log) ==
    IF log = <<>> THEN 0
    ELSE (IF Head(log).op = "Search.List" THEN Len(Head(log).resp.Items) ELSE 0)
         + Received(Tail(log))

\* where fetchLatestVideos goes after the loop over channelIDs: to the
\* batches of upcoming ids if there are any (line 166), else to the sort
AfterSearch(vs) ==
    IF Len(UpcomingIDs(vs)) > 0 THEN "L170" ELSE "L198"

\* faulty variant: a failed search is logged and skipped, the other channels are
\* still listed
Search131_SkipsFailedChannel(r, resp) ==
    /\ pc[r] = "L131"
    /\ LET channelID == channelIDs[chanIdx[r]]
           vs == AppendItems(Deref(heap, videos[r]), resp.Items, channelNames, channelID)
           ref == IF vs = <<>> THEN Nil
                  ELSE IF videos[r] # Nil THEN videos[r]
                  ELSE Alloc(cachedVideos, videos, toRender)
       IN  /\ calls' = [calls EXCEPT ![r] =
                  Append(@, [op |-> "Search.List", arg |-> channelID, resp |-> resp])]
           /\ videos' = [videos EXCEPT ![r] = ref]
           /\ heap' = IF ref = Nil THEN heap ELSE [heap EXCEPT ![ref] = vs]
           /\ chanIdx' = [chanIdx EXCEPT ![r] = @ + 1]
           /\ IF chanIdx[r] = Len(channelIDs)
              THEN /\ batches' = [batches EXCEPT ![r] =
                          splitChunks(UpcomingIDs(vs), BatchLimit)]
                   /\ batchIdx' = [batchIdx EXCEPT ![r] = 1]
                   /\ pc' = [pc EXCEPT ![r] = AfterSearch(vs)]
              ELSE UNCHANGED <<batches, batchIdx, pc>>
           /\ UNCHANGED fetchErr
    /\ UNCHANGED <<now, channelNames, mu, cachedVideos, lastFetch, reqCount,
                   needRefresh, toRender, response, copied, lastInvoked, stored, storedSince,
                   lastFailure, main, splitCall, storeCount, ownStore, copiedStore>>
    /\ fetchOrder' = IF pc'[r] = "L198" THEN Append(fetchOrder, r) ELSE fetchOrder

\* lines 130-166, one round of the loop over channelIDs: the Search.List
\* call for channelIDs[chanIdx], its error returned at once, its items
\* appended otherwise; after the last round the upcoming ids are batched
Search131(r, resp) ==
    /\ pc[r] = "L131"
    /\ LET channelID == channelIDs[chanIdx[r]]
           vs == AppendItems(Deref(heap, videos[r]), resp.Items, channelNames, channelID)
           ref == IF vs = <<>> THEN Nil
                  ELSE IF videos[r] # Nil THEN videos[r]
                  ELSE Alloc(cachedVideos, videos, toRender)
       IN  /\ calls' = [calls EXCEPT ![r] =
                  Append(@, [op |-> "Search.List", arg |-> channelID, resp |-> resp])]
           /\ IF resp.err
              THEN /\ fetchErr' = [fetchErr EXCEPT ![r] = TRUE]
                   /\ videos' = [videos EXCEPT ![r] = Nil]
                   /\ heap' = Collect(heap, Roots(cachedVideos, videos', toRender))
                   /\ pc' = [pc EXCEPT ![r] = "L98"]
                   /\ UNCHANGED <<chanIdx, batches, batchIdx>>
              ELSE /\ videos' = [videos EXCEPT ![r] = ref]
                   /\ heap' = IF ref = Nil THEN heap ELSE [heap EXCEPT ![ref] = vs]
                   /\ chanIdx' = [chanIdx EXCEPT ![r] = @ + 1]
                   /\ IF chanIdx[r] = Len(channelIDs)
                      THEN /\ batches' = [batches EXCEPT ![r] =
                                  splitChunks(UpcomingIDs(vs), BatchLimit)]
                           /\ batchIdx' = [batchIdx EXCEPT ![r] = 1]
                           /\ pc' = [pc EXCEPT ![r] = AfterSearch(vs)]
                      ELSE UNCHANGED <<batches, batchIdx, pc>>
                   /\ UNCHANGED fetchErr
    /\ UNCHANGED <<now, channelNames, mu, cachedVideos, lastFetch, reqCount,
                   needRefresh, toRender, response, copied, lastInvoked, stored, storedSince,
                   lastFailure, main, splitCall, storeCount, ownStore, copiedStore>>
    /\ fetchOrder' = IF pc'[r] = "L198" THEN Append(fetchOrder, r) ELSE fetchOrder

\* faulty variant: a failed batch ends the loop over the batches (break for continue)
Detail170_StopsAtFailedBatch(r, resp) ==
    /\ pc[r] = "L170"
    /\ calls' = [calls EXCEPT ![r] =
           Append(@, [op |-> "Videos.List", arg |-> batches[r][batchIdx[r]], resp |-> resp])]
    /\ heap' = IF resp.err THEN heap
               ELSE [heap EXCEPT ![videos[r]] = ApplyDetails(@, resp.Items)]
    /\ batchIdx' = [batchIdx EXCEPT ![r] = @ + 1]
    /\ pc' = [pc EXCEPT ![r] =
           IF resp.err \/ batchIdx[r] = Len(batches[r]) THEN "L198" ELSE "L170"]
    /\ UNCHANGED <<now, channelNames, mu, cachedVideos, lastFetch, reqCount,
                   needRefresh, videos, chanIdx, batches, fetchErr, toRender, response,
                   copied, lastInvoked, stored, storedSince, lastFailure, main, splitCall, storeCount, ownStore, copiedStore>>
    /\ fetchOrder' = IF pc'[r] = "L198" THEN Append(fetchOrder, r) ELSE fetchOrder

\* lines 168-195, one round of the loop over batches: the Videos.List call
\* for the batch, skipped when it fails, its items applied otherwise
Detail170(r, resp) ==
    /\ pc[r] = "L170"
    /\ calls' = [calls EXCEPT ![r] =
           Append(@, [op |-> "Videos.List", arg |-> batches[r][batchIdx[r]], resp |-> resp])]
    /\ heap' = IF resp.err THEN heap
               ELSE [heap EXCEPT ![videos[r]] = ApplyDetails(@, resp.Items)]
    /\ batchIdx' = [batchIdx EXCEPT ![r] = @ + 1]
    /\ pc' = [pc EXCEPT ![r] = IF batchIdx[r] = Len(batches[r]) THEN "L198" ELSE "L170"]
    /\ UNCHANGED <<now, channelNames, mu, cachedVideos, lastFetch, reqCount,
                   needRefresh, videos, chanIdx, batches, fetchErr, toRender, response,
                   copied, lastInvoked, stored, storedSince, lastFailure, main, splitCall, storeCount, ownStore, copiedStore>>
    /\ fetchOrder' = IF pc'[r] = "L198" THEN Append(fetchOrder, r) ELSE fetchOrder

\* lines 198-202: sort.Slice in place, return videos, nil
Sort198(r) ==
    /\ pc[r] = "L198"
    /\ heap' = IF videos[r] = Nil THEN heap
               ELSE [heap EXCEPT ![videos[r]] = SortSlice(@)]
    /\ pc' = [pc EXCEPT ![r] = "L102"]
    /\ storedSince' = [storedSince EXCEPT ![r] = FALSE]
    /\ UNCHANGED <<now, channelNames, mu, cachedVideos, lastFetch, reqCount, locals, lastInvoked, stored, lastFailure, main, fetchOrder, splitCall, storeCount, ownStore, copiedStore>>

\* what is known of the failed refreshes once one more has failed: "due" if
\* no store was completed since the staleness check of one of them,
\* "overtaken" if one was since the check of each
FailureAfter(known, overtaken) ==
    IF ~overtaken \/ known = "due" THEN "due" ELSE "overtaken"

\* faulty variant: the failed refresh stamps lastFetch all the same
Error98_StampsLastFetch(r) ==
    /\ pc[r] = "L98"
    /\ response' = [response EXCEPT ![r] =
           HttpError(@, "YouTube API error: fetchLatestVideos: Search.List error", 500)]
    /\ lastFetch' = now
    /\ lastFailure' = FailureAfter(lastFailure, storedSince[r])
    /\ storedSince' = [storedSince EXCEPT ![r] = FALSE]
    /\ pc' = [pc EXCEPT ![r] = "done"]
    /\ UNCHANGED <<now, channelNames, mu, cachedVideos, heap, reqCount,
                   needRefresh, videos, chanIdx, batches, batchIdx, fetchErr, toRender,
                   calls, copied, lastInvoked, stored, main, fetchOrder, splitCall, storeCount, ownStore, copiedStore>>

\* faulty variant: no return after http.Error, the handler goes on to serve
\* what is cached
Error98_ServesCache(r) ==
    /\ pc[r] = "L98"
    /\ response' = [response EXCEPT ![r] =
           HttpError(@, "YouTube API error: fetchLatestVideos: Search.List error", 500)]
    /\ lastFailure' = FailureAfter(lastFailure, storedSince[r])
    /\ storedSince' = [storedSince EXCEPT ![r] = FALSE]
    /\ pc' = [pc EXCEPT ![r] = "L108"]
    /\ UNCHANGED <<now, channelNames, mu, cachedVideos, lastFetch, heap, reqCount,
                   needRefresh, videos, chanIdx, batches, batchIdx, fetchErr, toRender,
                   calls, copied, lastInvoked, stored, main, fetchOrder, splitCall, storeCount, ownStore, copiedStore>>

\* the text of the error fetchLatestVideos returns, as the handler prints it
ErrorText == "YouTube API error: fetchLatestVideos: Search.List error"

\* lines 97-100: the error of fetchLatestVideos answered with a 500, return
Error98(r) ==
    /\ pc[r] = "L98"
    /\ response' = [response EXCEPT ![r] = HttpError(@, ErrorText, 500)]
    /\ lastFailure' = FailureAfter(lastFailure, storedSince[r])
    /\ storedSince' = [storedSince EXCEPT ![r] = FALSE]
    /\ pc' = [pc EXCEPT ![r] = "done"]
    /\ UNCHANGED <<now, channelNames, mu, cachedVideos, lastFetch, heap, reqCount,
                   needRefresh, videos, chanIdx, batches, batchIdx, fetchErr, toRender,
                   calls, copied, lastInvoked, stored, main, fetchOrder, splitCall, storeCount, ownStore, copiedStore>>

Lock102(r) == Lock(r, "L102", "L103")

\* the order of the fetches once the fetch of worker r is the one cached
NowCached(order, r) ==
    LET others == SelectSeq(order, LAMBDA x : x # "cached")
    IN  [i \in DOMAIN others |-> IF others[i] = r THEN "cached" ELSE others[i]]

\* faulty variant: mu released after the store of cachedVideos, lastFetch written
\* in a section of its own
Store103_OwnSection(r) ==
    /\ pc[r] = "L103"
    /\ cachedVideos' = videos[r]
    /\ heap' = Collect(heap, Roots(cachedVideos', videos, toRender))
    /\ stored' = stored \cup {Deref(heap, videos[r])}
    /\ pc' = [pc EXCEPT ![r] = "L104"]
    /\ mu' = NoOne
    /\ fetchOrder' = NowCached(fetchOrder, r)
    /\ storeCount' = storeCount + 1
    /\ ownStore' = [ownStore EXCEPT ![r] = storeCount + 1]
    /\ UNCHANGED <<now, channelNames, lastFetch, reqCount, locals, lastInvoked, storedSince,
                   lastFailure, main, splitCall, copiedStore>>

\* faulty variant: the store is left out when another request has stored within the
\* cache window (a second staleness check under the lock)
Store103_SkipsWhenFresh(r) ==
    /\ pc[r] = "L103"
    /\ IF now - lastFetch > cacheDuration
       THEN /\ cachedVideos' = videos[r]
            /\ heap' = Collect(heap, Roots(cachedVideos', videos, toRender))
            /\ stored' = stored \cup {Deref(heap, videos[r])}
            /\ fetchOrder' = NowCached(fetchOrder, r)
            /\ storeCount' = storeCount + 1
            /\ ownStore' = [ownStore EXCEPT ![r] = storeCount + 1]
       ELSE UNCHANGED <<cachedVideos, heap, stored, fetchOrder, storeCount, ownStore>>
    /\ pc' = [pc EXCEPT ![r] = "L104"]
    /\ UNCHANGED <<now, channelNames, mu, lastFetch, reqCount, locals, lastInvoked, storedSince,
                   lastFailure, main, splitCall, copiedStore>>

\* line 103: cachedVideos = videos
Store103(r) ==
    /\ pc[r] = "L103"
    /\ cachedVideos' = videos[r]
    /\ heap' = Collect(heap, Roots(cachedVideos', videos, toRender))
    /\ stored' = stored \cup {Deref(heap, videos[r])}
    /\ pc' = [pc EXCEPT ![r] = "L104"]
    /\ fetchOrder' = NowCached(fetchOrder, r)
    /\ storeCount' = storeCount + 1
    /\ ownStore' = [ownStore EXCEPT ![r] = storeCount + 1]
    /\ UNCHANGED <<now, channelNames, mu, lastFetch, reqCount, locals, lastInvoked, storedSince,
                   lastFailure, main, splitCall, copiedStore>>

\* faulty variant: line 105 left out, mu stays locked after the store
Store104_KeepsLock(r) ==
    /\ pc[r] = "L104"
    /\ lastFetch' = now
    /\ pc' = [pc EXCEPT ![r] = "L108"]
    /\ storedSince' = [w \in Workers |-> pc[w] \in {"L131", "L170", "L198", "L98"}]
    /\ lastFailure' = "none"
    /\ UNCHANGED <<now, channelNames, mu, cachedVideos, heap, reqCount, locals, lastInvoked, stored, main, fetchOrder, splitCall, storeCount, ownStore, copiedStore>>

\* lines 104-105: lastFetch = time.Now(), then mu.Unlock()
Store104(r) ==
    /\ pc[r] = "L104"
    /\ lastFetch' = now
    /\ mu' = NoOne
    /\ pc' = [pc EXCEPT ![r] = "L108"]
    /\ storedSince' = [w \in Workers |-> pc[w] \in {"L131", "L170", "L198", "L98"}]
    /\ lastFailure' = "none"
    /\ UNCHANGED <<now, channelNames, cachedVideos, heap, reqCount, locals, lastInvoked, stored, main, fetchOrder, splitCall, storeCount, ownStore, copiedStore>>

Lock108(r) == Lock(r, "L108", "L109")

\* make([]Video, len(src)) and copy(dst, src)
MakeCopy(src) == [i \in 1..Len(src) |-> src[i]]

\* faulty variant: toRender := cachedVideos, the slice itself
Copy109_SharesArray(r) ==
    /\ pc[r] = "L109"
    /\ toRender' = [toRender EXCEPT ![r] = cachedVideos]
    /\ heap' = heap
    /\ copied' = [copied EXCEPT ![r] = Deref(heap, cachedVideos)]
    /\ mu' = NoOne
    /\ pc' = [pc EXCEPT ![r] = "L113"]
    /\ copiedStore' = [copiedStore EXCEPT ![r] = storeCount]
    /\ UNCHANGED <<now, channelNames, cachedVideos, lastFetch, reqCount, needRefresh,
                   videos, chanIdx, batches, batchIdx, fetchErr, response, calls,
                   lastInvoked, stored, storedSince, lastFailure, main, fetchOrder, splitCall, storeCount, ownStore>>

\* lines 109-111: toRender is a copy of cachedVideos, then mu.Unlock()
Copy109(r) ==
    /\ pc[r] = "L109"
    /\ LET ref == Alloc(cachedVideos, videos, toRender)
       IN  /\ toRender' = [toRender EXCEPT ![r] = ref]
           /\ heap' = [heap EXCEPT ![ref] = MakeCopy(Deref(heap, cachedVideos))]
    /\ copied' = [copied EXCEPT ![r] = Deref(heap, cachedVideos)]
    /\ mu' = NoOne
    /\ pc' = [pc EXCEPT ![r] = "L113"]
    /\ copiedStore' = [copiedStore EXCEPT ![r] = storeCount]
    /\ UNCHANGED <<now, channelNames, cachedVideos, lastFetch, reqCount, needRefresh,
                   videos, chanIdx, batches, batchIdx, fetchErr, response, calls,
                   lastInvoked, stored, storedSince, lastFailure, main, fetchOrder, splitCall, storeCount, ownStore>>

\* what tmpl.Execute can do
RenderOutcomes == {"ok", "error before output", "error after output"}

\* lines 113-115: tmpl.Execute(w, toRender) writes the page, or fails before
\* or after it has written part of it; its error goes to http.Error
Render113(r, outcome) ==
    /\ pc[r] = "L113"
    /\ LET page == [kind |-> "html", videos |-> Deref(heap, toRender[r]),
                    whole |-> outcome = "ok"]
           w == IF outcome = "error before output" THEN response[r]
                ELSE Write(response[r], page)
       IN  response' = [response EXCEPT ![r] =
               IF outcome = "ok" THEN w ELSE HttpError(w, "template error", 500)]
    /\ pc' = [pc EXCEPT ![r] = "done"]
    /\ UNCHANGED <<now, channelNames, mu, cachedVideos, lastFetch, heap, reqCount,
                   needRefresh, videos, chanIdx, batches, batchIdx, fetchErr, toRender,
                   calls, copied, lastInvoked, stored, storedSince, lastFailure, main, fetchOrder, splitCall, storeCount, ownStore, copiedStore>>

\* the handler returns: its locals are gone, the worker is free again
Return116(r) ==
    /\ pc[r] = "done"
    /\ pc' = [pc EXCEPT ![r] = "idle"]
    /\ needRefresh' = [needRefresh EXCEPT ![r] = FALSE]
    /\ videos' = [videos EXCEPT ![r] = Nil]
    /\ chanIdx' = [chanIdx EXCEPT ![r] = 0]
    /\ batches' = [batches EXCEPT ![r] = <<>>]
    /\ batchIdx' = [batchIdx EXCEPT ![r] = 0]
    /\ fetchErr' = [fetchErr EXCEPT ![r] = FALSE]
    /\ toRender' = [toRender EXCEPT ![r] = Nil]
    /\ response' = [response EXCEPT ![r] = NoResponse]
    /\ calls' = [calls EXCEPT ![r] = <<>>]
    /\ copied' = [copied EXCEPT ![r] = <<>>]
    /\ heap' = Collect(heap, Roots(cachedVideos, videos', toRender'))
    /\ ownStore' = [ownStore EXCEPT ![r] = 0]
    /\ copiedStore' = [copiedStore EXCEPT ![r] = 0]
    /\ UNCHANGED <<now, channelNames, mu, cachedVideos, lastFetch, reqCount, lastInvoked, stored, storedSince, lastFailure, main, fetchOrder, splitCall, storeCount>>

\* time passes
Tick ==
    /\ now < MaxTime
    /\ now' = now + 1
    /\ UNCHANGED <<channelNames, mu, cachedVideos, lastFetch, heap, reqCount, pc, locals, lastInvoked, stored, storedSince, lastFailure, main, fetchOrder, splitCall, storeCount, ownStore, copiedStore>>

(* --------------------------- specifications --------------------------- *)
\* concurrent requests against an upstream that answers with few items
Next ==
    \/ Tick
    \/ \E r \in Workers :
        \/ HandleRequest(r, MaxRequests)
        \/ Lock91(r)
        \/ Check92(r)
        \/ /\ pc[r] = "L131"
           /\ \E resp \in HandlerSearchResponses(channelIDs[chanIdx[r]]) : Search131(r, resp)
        \/ \E resp \in HandlerDetailResponses : Detail170(r, resp)
        \/ Sort198(r)
        \/ Error98(r)
        \/ Lock102(r)
        \/ Store103(r)
        \/ Store104(r)
        \/ Lock108(r)
        \/ Copy109(r)
        \/ \E outcome \in RenderOutcomes : Render113(r, outcome)
        \/ Return116(r)

Spec == Init /\ [][Next]_vars

\* one refresh, from the arrival of the first request to its store, meeting
\* every upstream answer within the bounds: at most MaxItems search items in
\* all, and no more detail records in a response than ids were asked for
\* (of any id, asked for or not)
FetchWorker == "w1"

NextFetch ==
    \/ HandleRequest(FetchWorker, 1)
    \/ Lock91(FetchWorker)
    \/ Check92(FetchWorker)
    \/ /\ pc[FetchWorker] = "L131"
       /\ \E resp \in Response(SearchItems, MaxItems - Received(calls[FetchWorker])) :
             Search131(FetchWorker, resp)
    \/ /\ pc[FetchWorker] = "L170"
       /\ \E resp \in Response(DetailItems, Len(batches[FetchWorker][batchIdx[FetchWorker]])) :
             Detail170(FetchWorker, resp)
    \/ Sort198(FetchWorker)
    \/ Error98(FetchWorker)
    \/ Lock102(FetchWorker)
    \/ Store103(FetchWorker)
    \/ Store104(FetchWorker)

SpecFetch == Init /\ [][NextFetch]_vars

\* the process from its start: main sets up and serves, or exits; once it
\* serves, a first request goes through its staleness check and refresh
InitMain ==
    /\ main \in { Starting(env, dotenv) : env \in EnvValues, dotenv \in DotenvFiles }
    /\ now = 0
    /\ channelNames = [c \in {} |-> ""]
    /\ mu = NoOne
    /\ cachedVideos = Nil
    /\ lastFetch = LongAgo
    /\ heap = [ref \in Refs |-> <<>>]
    /\ reqCount = 0
    /\ pc = [r \in Workers |-> "idle"]
    /\ needRefresh = [r \in Workers |-> FALSE]
    /\ videos = [r \in Workers |-> Nil]
    /\ chanIdx = [r \in Workers |-> 0]
    /\ batches = [r \in Workers |-> <<>>]
    /\ batchIdx = [r \in Workers |-> 0]
    /\ fetchErr = [r \in Workers |-> FALSE]
    /\ toRender = [r \in Workers |-> Nil]
    /\ response = [r \in Workers |-> NoResponse]
    /\ calls = [r \in Workers |-> <<>>]
    /\ copied = [r \in Workers |-> <<>>]
    /\ lastInvoked = Never
    /\ stored = {}
    /\ storedSince = [r \in Workers |-> FALSE]
    /\ lastFailure = "none"
    /\ fetchOrder = <<>>
    /\ storeCount = 0
    /\ ownStore = [r \in Workers |-> 0]
    /\ copiedStore = [r \in Workers |-> 0]
    /\ splitCall = NoSplit

NextMain ==
    \/ Tick
    \/ LoadEnv45
    \/ \E ok \in BOOLEAN : ParseFiles50(ok)
    \/ Getenv55
    \/ \E ok \in BOOLEAN : NewService68(ok)
    \/ /\ main.pc = "L77"
       /\ \E resp \in ChannelsResponses(splitChunks(channelIDs, BatchLimit)[main.chunk]) :
             Channels77(resp)
    \/ SetLastFetch88
    \/ HandleFunc90
    \/ \E ok \in BOOLEAN : ListenAndServe119(ok)
    \/ HandleRequest(FetchWorker, 1)
    \/ Lock91(FetchWorker)
    \/ Check92(FetchWorker)
    \/ /\ pc[FetchWorker] = "L131"
       /\ \E resp \in HandlerSearchResponses(channelIDs[chanIdx[FetchWorker]]) :
             Search131(FetchWorker, resp)
    \/ \E resp \in HandlerDetailResponses : Detail170(FetchWorker, resp)
    \/ Sort198(FetchWorker)
    \/ Error98(FetchWorker)

SpecMain == InitMain /\ [][NextMain]_vars

\* ---------------------------------------------------------------------
\* the handler on quiet channels: the search of the first channel fails,
\* finds nothing or finds one video that is not upcoming, the searches of
\* the others find nothing; fetchLatestVideos then has no id to look up
\* (line 166) and may return an empty list
QuietSearchResponses(channelID) ==
    IF channelID = channelIDs[1]
    THEN {Failed, Answer(<<>>)} \cup
         { Answer(<<only>>) :
             only \in { x \in SearchItems :
                          /\ x.VideoId = "v1"
                          /\ x.PublishedAt = "2025-05-01T10:00:00Z"
                          /\ x.LiveBroadcastContent = "none" } }
    ELSE {Answer(<<>>)}

NextQuiet ==
    \/ Tick
    \/ \E r \in Workers :
        \/ HandleRequest(r, MaxRequests)
        \/ Lock91(r)
        \/ Check92(r)
        \/ /\ pc[r] = "L131"
           /\ \E resp \in QuietSearchResponses(channelIDs[chanIdx[r]]) : Search131(r, resp)
        \/ Sort198(r)
        \/ Error98(r)
        \/ Lock102(r)
        \/ Store103(r)
        \/ Store104(r)
        \/ Lock108(r)
        \/ Copy109(r)
        \/ \E outcome \in RenderOutcomes : Render113(r, outcome)
        \/ Return116(r)

SpecQuiet == Init /\ [][NextQuiet]_vars

\* ---------------------------------------------------------------------
\* the handler with its scheduling: a goroutine that can run its next
\* statement does so in the end, an upstream call and tmpl.Execute return,
\* a goroutine waiting in mu.Lock() proceeds once mu stays free. Nothing is
\* asked of the arrival of requests or of the clock

\* the steps of the handler run by worker r, once it has a request
Handler(r) ==
    \/ Lock91(r)
    \/ Check92(r)
    \/ /\ pc[r] = "L131"
       /\ \E resp \in HandlerSearchResponses(channelIDs[chanIdx[r]]) : Search131(r, resp)
    \/ \E resp \in HandlerDetailResponses : Detail170(r, resp)
    \/ Sort198(r)
    \/ Error98(r)
    \/ Lock102(r)
    \/ Store103(r)
    \/ Store104(r)
    \/ Lock108(r)
    \/ Copy109(r)
    \/ \E outcome \in RenderOutcomes : Render113(r, outcome)
    \/ Return116(r)

NextLive ==
    \/ /\ now < MaxLiveTime
       /\ Tick
    \/ \E r \in Workers :
        \/ HandleRequest(r, MaxLiveRequests)
        \/ Handler(r)

SpecLive == Init /\ [][NextLive]_vars /\ \A r \in Workers : WF_vars(Handler(r))

\* ---------------------------------------------------------------------
\* splitChunks on its own (lines 205-215): any list of ids, any chunk size
\* from 1, the size fetchLatestVideos passes included

\* the calls splitChunks(ids, n) to consider
SplitCalls ==
    { [ids |-> ids, n |-> n, chunks |-> <<>>, returned |-> FALSE] :
          ids \in SeqUpTo(VideoIds, MaxLen), n \in 1..MaxChunk }

InitChunks ==
    /\ splitCall \in SplitCalls
    /\ main = Serving
    /\ now = 0
    /\ channelNames \in ChannelDirectories
    /\ mu = NoOne
    /\ cachedVideos = Nil
    /\ lastFetch = InitialLastFetch(now)
    /\ heap = [ref \in Refs |-> <<>>]
    /\ reqCount = 0
    /\ pc = [r \in Workers |-> "idle"]
    /\ needRefresh = [r \in Workers |-> FALSE]
    /\ videos = [r \in Workers |-> Nil]
    /\ chanIdx = [r \in Workers |-> 0]
    /\ batches = [r \in Workers |-> <<>>]
    /\ batchIdx = [r \in Workers |-> 0]
    /\ fetchErr = [r \in Workers |-> FALSE]
    /\ toRender = [r \in Workers |-> Nil]
    /\ response = [r \in Workers |-> NoResponse]
    /\ calls = [r \in Workers |-> <<>>]
    /\ copied = [r \in Workers |-> <<>>]
    /\ lastInvoked = Never
    /\ stored = {}
    /\ storedSince = [r \in Workers |-> FALSE]
    /\ lastFailure = "none"
    /\ fetchOrder = <<>>
    /\ storeCount = 0
    /\ ownStore = [r \in Workers |-> 0]
    /\ copiedStore = [r \in Workers |-> 0]

\* lines 205-215: the call runs and returns its chunks
SplitChunks205 ==
    /\ ~splitCall.returned
    /\ splitCall.n >= 1
    /\ splitCall' = [splitCall EXCEPT !.chunks = splitChunks(splitCall.ids, splitCall.n),
                                      !.returned = TRUE]
    /\ UNCHANGED <<now, channelNames, mu, cachedVideos, lastFetch, heap, reqCount, pc,
                   locals, lastInvoked, stored, storedSince, lastFailure, main,
                   fetchOrder, storeCount, ownStore, copiedStore>>

NextChunks == SplitChunks205

SpecChunks == InitChunks /\ [][NextChunks]_vars

TypeOK ==
    /\ now \in 0..MaxTime
    /\ mu \in Workers \cup {NoOne}
    /\ cachedVideos \in Refs \cup {Nil}
    /\ reqCount \in 0..MaxRequests
    /\ storeCount \in 0..MaxRequests
    /\ \A r \in Workers : ownStore[r] \in 0..storeCount /\ copiedStore[r] \in 0..storeCount
    /\ splitCall.n \in 0..MaxChunk
    /\ Len(splitCall.ids) \in 0..MaxLen

(* ------------------------------ claims -------------------------------- *)
\* the request worker r handles found the cache fresh at its staleness check
Fresh(r) == pc[r] \in {"L108", "L109", "L113", "done"} /\ ~needRefresh[r]

\* the videos of the page worker r has written, if it has written one
PagesOf(r) == { response[r].body[i].videos :
                  i \in { k \in DOMAIN response[r].body : response[r].body[k].kind = "html" } }

C1_Inv ==
    \A r \in Workers :
        Fresh(r) =>
            /\ calls[r] = <<>>
            /\ pc[r] = "L113" => Deref(heap, toRender[r]) = copied[r]
            /\ pc[r] = "done" => PagesOf(r) \subseteq {copied[r]}

C1_Step ==
    \A r \in Workers :
        /\ (pc[r] = "L92" /\ pc'[r] # "L92" /\ now - lastFetch <= cacheDuration)
              => (Fresh(r))' /\ pc'[r] = "L108" /\ calls'[r] = <<>>
        /\ (pc'[r] # pc[r] /\ (Fresh(r) \/ (Fresh(r))'))
              => /\ cachedVideos' = cachedVideos
                 /\ lastFetch' = lastFetch
                 /\ Deref(heap', cachedVideos) = Deref(heap, cachedVideos)
        /\ (pc[r] = "L109" /\ pc'[r] = "L113")
              => copied'[r] = Deref(heap, cachedVideos)

\* C1: a request whose staleness check finds now - lastFetch <= cacheDuration
\* (equality included) is not stale: it makes no upstream call, what it
\* renders is, element for element, what cachedVideos held at its copy step,
\* and none of its steps changes cachedVideos or lastFetch
C1_FreshServesCache == [] C1_Inv /\ [][C1_Step]_vars

\* a fresh request, checked exactly cacheDuration after the last store, has
\* answered 200 with the cached, non-empty snapshot
C1_Witness ==
    \E r \in Workers :
        /\ Fresh(r) /\ pc[r] = "done"
        /\ now - lastFetch = cacheDuration
        /\ response[r].status = 200
        /\ copied[r] # <<>> /\ PagesOf(r) = {copied[r]}

\* worker r took the step
Moved(r) == <<pc[r], chanIdx[r], batchIdx[r]>>' # <<pc[r], chanIdx[r], batchIdx[r]>>

\* the request of worker r is in its refresh and has not stored anything
Refreshing(r) == pc[r] \in {"L131", "L170", "L198", "L98"} \/ (pc[r] = "done" /\ fetchErr[r])

C2_Step ==
    \A r \in Workers :
        (Moved(r) /\ (pc[r] \in {"L91", "L92"} \/ Refreshing(r)))
            => /\ cachedVideos' = cachedVideos
               /\ lastFetch' = lastFetch
               /\ Deref(heap', cachedVideos) = Deref(heap, cachedVideos)

\* C2: a request whose refresh fails goes from its staleness check through
\* the failing fetch to its error response and return without one step that
\* writes lastFetch, cachedVideos or the array cachedVideos refers to, and
\* it never reaches the store
C2_FailedRefreshWritesNothing ==
    [](\A r \in Workers : fetchErr[r] => pc[r] \in {"L98", "done"}) /\ [][C2_Step]_vars

\* a refresh has failed and answered 500 while an older snapshot is cached
C2_Witness ==
    \E r \in Workers :
        /\ pc[r] = "done" /\ fetchErr[r]
        /\ response[r].status = 500
        /\ cachedVideos # Nil /\ lastFetch >= 0

\* fetchLatestVideos of worker r is running: its slice is still being built,
\* enriched or sorted
Fetching(r) == pc[r] \in {"L131", "L170", "L198"}

C3_Inv ==
    \A r \in Workers :
        /\ pc[r] = "L113" => Deref(heap, toRender[r]) \in stored \cup {<<>>}
        /\ pc[r] = "done" => PagesOf(r) \subseteq stored \cup {<<>>}
        /\ Fetching(r) => videos[r] = Nil \/ videos[r] # cachedVideos
        /\ Fetching(r) => \A q \in Workers : videos[r] = Nil \/ videos[r] # toRender[q]

C3_Step ==
    /\ Deref(heap', cachedVideos) # Deref(heap, cachedVideos) => cachedVideos' # cachedVideos
    /\ cachedVideos' # cachedVideos
          => \E r \in Workers : /\ mu = r /\ pc[r] = "L103" /\ pc'[r] = "L104"
                                /\ cachedVideos' = videos[r]
                                /\ Deref(heap', cachedVideos') = Deref(heap, videos[r])
    /\ \A r \in Workers :
          (pc[r] = "L113" /\ pc'[r] = "L113")
              => Deref(heap', toRender[r]) = Deref(heap, toRender[r])

\* C3: what a request copies and renders is, in full, one snapshot that a
\* refresh stored, or the initial empty one; no slice a running
\* fetchLatestVideos is building is the array of cachedVideos or of a copy;
\* the array of cachedVideos is never written while it is cached, and
\* cachedVideos changes only by the store of line 103, under mu, to the
\* slice a finished fetchLatestVideos returned
C3_WholeSnapshots == [] C3_Inv /\ [][C3_Step]_vars

\* a request is about to render a stored, non-empty snapshot while the
\* refresh of another request is building its slice
C3_Witness ==
    \E r, q \in Workers :
        /\ r # q
        /\ pc[r] = "L113" /\ Len(Deref(heap, toRender[r])) > 1
        /\ Deref(heap, toRender[r]) \in stored
        /\ pc[q] = "L198" /\ videos[q] # Nil
        /\ Deref(heap, videos[q]) \notin stored

\* worker r calls fetchLatestVideos in this step
Invokes(r) == pc[r] = "L92" /\ pc'[r] = "L131"

\* worker r completes its store (lines 103-105) in this step
Stores(r) == pc[r] = "L104" /\ pc'[r] = "L108"

\* C4 as claimed: at most one call of fetchLatestVideos and at most one store
\* in a window of length cacheDuration, i.e. a call comes at least
\* cacheDuration after the call before it and a store at least cacheDuration
\* after the store before it
C4_OncePerWindow ==
    [][\A r \in Workers :
          /\ Invokes(r) => lastInvoked = Never \/ now - lastInvoked >= cacheDuration
          /\ Stores(r) => now - lastFetch >= cacheDuration]_vars

\* C4 as amended: a request calls fetchLatestVideos exactly when its own
\* staleness check, made under mu, finds now - lastFetch > cacheDuration,
\* and only a request that did so and whose fetch succeeded stores; a
\* request checked within cacheDuration of the last store starts no fetch
C4_RefreshOnlyWhenStale ==
    /\ [][\A r \in Workers :
            /\ Invokes(r) => mu = r /\ now - lastFetch > cacheDuration
            /\ (pc[r] = "L92" /\ pc'[r] # "L92" /\ now - lastFetch > cacheDuration)
                   => Invokes(r) /\ lastInvoked' = now
            /\ (pc'[r] = "L131" /\ pc[r] # "L131") => Invokes(r)]_vars
    /\ [](\A r \in Workers :
            pc[r] \in {"L102", "L103", "L104"} => needRefresh[r] /\ ~fetchErr[r]
                                                  /\ lastInvoked # Never)

\* a request has just called fetchLatestVideos because the snapshot of an
\* earlier window has gone stale
C4_Witness ==
    \E r \in Workers :
        /\ pc[r] = "L131" /\ chanIdx[r] = 1 /\ lastInvoked = now
        /\ cachedVideos # Nil /\ lastFetch >= 0
        /\ now - lastFetch > cacheDuration

\* the log holds a failed call of op
HasFailed(log, op) == \E i \in DOMAIN log : log[i].op = op /\ log[i].resp.err

C10_Inv ==
    \A r \in Workers :
        /\ HasFailed(calls[r], "Search.List") => fetchErr[r]
        /\ fetchErr[r] =>
              /\ pc[r] \in {"L98", "done"}
              /\ videos[r] = Nil /\ toRender[r] = Nil
              /\ calls[r] # <<>>
              /\ \A i \in DOMAIN calls[r] :
                    /\ calls[r][i].op = "Search.List"
                    /\ calls[r][i].resp.err <=> i = Len(calls[r])
              /\ pc[r] = "L98" => response[r] = NoResponse
              /\ pc[r] = "done" =>
                    response[r] = [status |-> 500,
                                   body |-> <<[kind |-> "error", text |-> ErrorText]>>]

\* C10: a failed Search.List aborts fetchLatestVideos: it returns the error
\* and no list, makes no upstream call after the failed one (no further
\* search, no detail lookup), and the handler answers 500 with the error
\* text alone and renders nothing, whatever is cached
C10_SearchFailureAborts == C10_Inv

\* the search of the second channel failed after the first had returned
\* videos, and the request answered 500 although a snapshot is cached
C10_Witness ==
    \E r \in Workers :
        /\ pc[r] = "done" /\ fetchErr[r]
        /\ Len(calls[r]) = 2 /\ calls[r][1].resp.Items # <<>>
        /\ cachedVideos # Nil /\ Deref(heap, cachedVideos) # <<>>
        /\ response[r].status = 500 /\ PagesOf(r) = {}

(* ----------------- claims about fetchLatestVideos --------------------- *)
\* fetchLatestVideos of worker r has returned its list (and no error)
Returned(r) == pc[r] \in {"L102", "L103"}
Result(r) == Deref(heap, videos[r])

IsSortedDesc(vs) == \A i \in 1..(Len(vs) - 1) : vs[i].Published >= vs[i + 1].Published

\* C5: the sequence a successful fetchLatestVideos returns is sorted by
\* Published descending (a.Published >= b.Published for adjacent a, b), and
\* so is the snapshot in cachedVideos at all times
C5_SortedDescending ==
    /\ \A r \in Workers : Returned(r) => IsSortedDesc(Result(r))
    /\ IsSortedDesc(Deref(heap, cachedVideos))

\* the stored snapshot has the newer video of the second channel in front of
\* the older video of the first channel
C5_Witness ==
    LET vs == Deref(heap, cachedVideos)
    IN  /\ Len(vs) = 2
        /\ vs[1].Published > vs[2].Published
        /\ vs[1].Channel = "Krzysztof M. Maj" /\ vs[2].Channel = "Bez Schematu"

\* the search items a request received, each with the channel searched, in
\* the order received
RECURSIVE Searched(_)
Searched(log) ==
    IF log = <<>> THEN <<>>
    ELSE (IF Head(log).op = "Search.List"
          THEN [i \in 1..Len(Head(log).resp.Items) |->
                   [item |-> Head(log).resp.Items[i], channelID |-> Head(log).arg]]
          ELSE <<>>) \o Searched(Tail(log))

\* the Videos.List calls a request made
DetailCalls(log) == SelectSeq(log, LAMBDA c : c.op = "Videos.List")

Parses(s) == ParseRFC3339(s).ok

\* what C7 says a record keeps of its search item
KeptOfItem(e) == <<e.item.VideoId, e.item.Title, e.item.Thumbnail,
                   e.item.LiveBroadcastContent, NameOf(channelNames, e.channelID)>>
KeptInVideo(v) == <<v.VideoID, v.Title, v.Thumbnail, v.LiveStatus, v.Channel>>

\* C7: items with an unparsable publishedAt do not fail fetchLatestVideos
\* (it fails only when a search fails), and the returned sequence has
\* exactly one record for each search item whose publishedAt parses, with
\* its id, title, thumbnail, live status and channel name, and none for the
\* others
C7_DropsOnlyMalformed ==
    \A r \in Workers :
        /\ fetchErr[r] => HasFailed(calls[r], "Search.List")
        /\ Returned(r) =>
              LET items == Searched(calls[r])
                  good == { i \in DOMAIN items : Parses(items[i].item.PublishedAt) }
                  vs == Result(r)
              IN  /\ Len(vs) = Cardinality(good)
                  /\ \A k \in { KeptOfItem(items[i]) : i \in good } \cup
                              { KeptInVideo(vs[j]) : j \in DOMAIN vs } :
                        Cardinality({ i \in good : KeptOfItem(items[i]) = k })
                          = Cardinality({ j \in DOMAIN vs : KeptInVideo(vs[j]) = k })

\* a search returned a malformed item before a well-formed one, and the
\* fetch returned the one record
C7_Witness ==
    \E r \in Workers :
        LET items == Searched(calls[r])
        IN  /\ pc[r] = "L102"
            /\ Len(items) = 2 /\ items[1].channelID = items[2].channelID
            /\ ~Parses(items[1].item.PublishedAt) /\ Parses(items[2].item.PublishedAt)
            /\ Len(Result(r)) = 1

\* a detail item with a time the code takes
GoodTime(d) == d.HasDetails /\ d.ScheduledStartTime # "" /\ Parses(d.ScheduledStartTime)

\* the times a detail lookup's response carried for an id
CarriedIn(resp, id) ==
    IF resp.err THEN {}
    ELSE { InLocal(ParseRFC3339(resp.Items[j].ScheduledStartTime).t) :
             j \in { i \in DOMAIN resp.Items :
                       resp.Items[i].Id = id /\ GoodTime(resp.Items[i]) } }

\* the times the detail lookups of a request carried for an id
CarriedFor(log, id) ==
    UNION { CarriedIn(DetailCalls(log)[k].resp, id) : k \in DOMAIN DetailCalls(log) }

\* the ids of the upcoming search items whose publishedAt parses, in the
\* order received
RECURSIVE UpcomingOf(_)
UpcomingOf(items) ==
    IF items = <<>> THEN <<>>
    ELSE (IF Head(items).item.LiveBroadcastContent = "upcoming"
             /\ Parses(Head(items).item.PublishedAt)
          THEN <<Head(items).item.VideoId>> ELSE <<>>) \o UpcomingOf(Tail(items))

\* C9: a failed detail lookup never becomes an error of fetchLatestVideos
\* (only a failed search does) and never removes a video; every batch of
\* upcoming ids is looked up whatever happened to the batches before it; an
\* upcoming video for which no lookup brought a time is returned with
\* LiveStatus upcoming and ScheduledStartTime unset; the times a successful
\* lookup brought are applied
C9_EnrichmentBestEffort ==
    \A r \in Workers :
        /\ (fetchErr[r] \/ pc[r] = "L98") => HasFailed(calls[r], "Search.List")
        /\ Returned(r) =>
              LET items == Searched(calls[r])
                  dc == DetailCalls(calls[r])
                  expected == splitChunks(UpcomingOf(items), BatchLimit)
                  vs == Result(r)
              IN  /\ ~fetchErr[r]
                  /\ Len(vs) = Cardinality({ i \in DOMAIN items : Parses(items[i].item.PublishedAt) })
                  /\ Len(dc) = Len(expected)
                  /\ \A k \in DOMAIN dc : dc[k].arg = expected[k]
                  /\ \A i \in DOMAIN items :
                        (/\ Parses(items[i].item.PublishedAt)
                         /\ items[i].item.LiveBroadcastContent = "upcoming"
                         /\ CarriedFor(calls[r], items[i].item.VideoId) = {})
                        => /\ \E j \in DOMAIN vs : /\ vs[j].VideoID = items[i].item.VideoId
                                                   /\ vs[j].LiveStatus = "upcoming"
                           /\ \A j \in DOMAIN vs :
                                 vs[j].VideoID = items[i].item.VideoId
                                 => vs[j].ScheduledStartTime = ZeroTime
                  /\ \A id \in VideoIds :
                        (CarriedFor(calls[r], id) # {} /\ \E j \in DOMAIN vs : vs[j].VideoID = id)
                        => \E j \in DOMAIN vs : /\ vs[j].VideoID = id
                                                /\ vs[j].ScheduledStartTime \in CarriedFor(calls[r], id)

\* two upcoming videos, the lookup of the first one's batch failed, the
\* lookup of the second one's batch was made and applied
C9_Witness ==
    \E r \in Workers :
        LET dc == DetailCalls(calls[r])
            vs == Result(r)
        IN  /\ pc[r] = "L102"
            /\ Len(dc) = 2 /\ dc[1].resp.err /\ ~dc[2].resp.err
            /\ dc[1].arg[1] # dc[2].arg[1]
            /\ \E i, j \in DOMAIN vs :
                  /\ vs[i].VideoID = dc[1].arg[1] /\ vs[i].LiveStatus = "upcoming"
                  /\ vs[i].ScheduledStartTime = ZeroTime
                  /\ vs[j].VideoID = dc[2].arg[1] /\ vs[j].LiveStatus = "upcoming"
                  /\ vs[j].ScheduledStartTime # ZeroTime

\* the detail items the lookups of a request brought
DetailsSeen(log) ==
    UNION { { DetailCalls(log)[k].resp.Items[j] : j \in DOMAIN DetailCalls(log)[k].resp.Items } :
              k \in DOMAIN DetailCalls(log) }

\* the answer of a detail service that knows the items in known: for each
\* id of the batch the item about it, if there is one
RECURSIVE ItemsFor(_, _)
ItemsFor(known, batch) ==
    IF batch = <<>> THEN <<>>
    ELSE (IF \E d \in known : d.Id = Head(batch)
          THEN <<CHOOSE d \in known : d.Id = Head(batch)>> ELSE <<>>)
         \o ItemsFor(known, Tail(batch))

\* the request talked to a detail service that answers every lookup, and
\* answers it with what it knows about the ids asked, one item an id
SameService(log) ==
    /\ \A d, e \in DetailsSeen(log) : d.Id = e.Id => d = e
    /\ \A k \in DOMAIN DetailCalls(log) :
          DetailCalls(log)[k].resp = Answer(ItemsFor(DetailsSeen(log), DetailCalls(log)[k].arg))

\* the upstream a request talked to, as fetchLatestVideos would find it
\* again: the search responses by channel, the detail service by batch
UpstreamOf(log) ==
    [search |-> [c \in { channelIDs[i] : i \in DOMAIN channelIDs } |->
                    (CHOOSE call \in { log[i] : i \in DOMAIN log } :
                        call.op = "Search.List" /\ call.arg = c).resp],
     details |-> [b \in SeqUpTo(VideoIds, BatchLimit) |-> Answer(ItemsFor(DetailsSeen(log), b))]]

\* channelIDs in another order
Orders ==
    { [i \in DOMAIN channelIDs |-> channelIDs[p[i]]] :
        p \in { q \in [DOMAIN channelIDs -> DOMAIN channelIDs] :
                  \A i, j \in DOMAIN channelIDs : q[i] = q[j] => i = j } }

\* against the upstream the request talked to, fetchLatestVideos gives the
\* list the request got, whatever the order of the channels
AnyOrder(r) ==
    \A ids \in Orders :
        FetchLatestVideos(UpstreamOf(calls[r]), channelNames, ids)
          = [err |-> FALSE, videos |-> Result(r)]

NoTies(vs) == \A i, j \in DOMAIN vs : i # j => vs[i].Published # vs[j].Published
NoSharedIds(vs) == \A i, j \in DOMAIN vs : i # j => vs[i].VideoID # vs[j].VideoID

\* C8 as stated: for the same upstream responses, every order of the
\* channels gives the same returned sequence, also when two videos have
\* equal timestamps or one video is in the results of two channels
C8_AnyChannelOrder ==
    \A r \in Workers : (Returned(r) /\ SameService(calls[r])) => AnyOrder(r)

\* C8, amended: for the same upstream responses, every order of the channels
\* gives the same returned sequence when no two returned videos have the
\* same Published and no two the same id
C8_AnyOrderWithoutTies ==
    \A r \in Workers :
        (Returned(r) /\ SameService(calls[r]) /\ NoTies(Result(r)) /\ NoSharedIds(Result(r)))
        => AnyOrder(r)

\* two channels gave one video each, the later channel the newer one, a
\* lookup brought the time of one of them, and the list came out newest
\* first
C8_Witness ==
    \E r \in Workers :
        LET vs == Result(r)
        IN  /\ pc[r] = "L102" /\ SameService(calls[r])
            /\ Len(vs) = 2 /\ NoTies(vs) /\ NoSharedIds(vs)
            /\ vs[1].Channel = "Krzysztof M. Maj" /\ vs[2].Channel = "Bez Schematu"
            /\ \E j \in DOMAIN vs : vs[j].ScheduledStartTime # ZeroTime

\* enrichment succeeded for an id: a lookup of a batch holding the id
\* succeeded and brought an item about the id with a time the code takes
Enriched(log, id) ==
    \E k \in DOMAIN DetailCalls(log) :
        /\ \E i \in DOMAIN DetailCalls(log)[k].arg : DetailCalls(log)[k].arg[i] = id
        /\ CarriedIn(DetailCalls(log)[k].resp, id) # {}

\* C6 as stated: in every returned sequence, whatever the detail lookups
\* answered, a record has ScheduledStartTime set if and only if its
\* LiveStatus is upcoming and enrichment succeeded for its id; the match
\* loop of lines 187-192 looks at the id alone and stops at the first
\* record, so this fails
C6_ScheduledIffEnriched ==
    \A r \in Workers :
        Returned(r) =>
            \A j \in DOMAIN Result(r) :
                Result(r)[j].ScheduledStartTime # ZeroTime
                <=> (/\ Result(r)[j].LiveStatus = "upcoming"
                     /\ Enriched(calls[r], Result(r)[j].VideoID))

(* ----------------------- claims about the handler --------------------- *)
\* worker r makes its staleness check (lines 92-95) in this step
Checks(r) == pc[r] = "L92" /\ pc'[r] # "L92"

\* one handling calls fetchLatestVideos at most once: it searches no channel
\* twice, and after a failed fetch it only answers and returns
NoRetryWithin(r) ==
    /\ \A i, j \in DOMAIN calls[r] :
          (i < j /\ calls[r][i].op = "Search.List" /\ calls[r][j].op = "Search.List")
          => calls[r][i].arg # calls[r][j].arg
    /\ fetchErr[r] => pc[r] \in {"L98", "done"}

\* C11 as stated: when a refresh has failed and no refresh has succeeded
\* (completed its store) since that failure, the next request to make its
\* staleness check finds the cache stale and calls fetchLatestVideos; no
\* request calls it twice
C11_NextRequestRetries ==
    /\ [][\A q \in Workers : (Checks(q) /\ lastFailure # "none") => Invokes(q)]_vars
    /\ [](\A r \in Workers : NoRetryWithin(r))

\* C11, amended: the answer to a failed refresh leaves lastFetch as it was;
\* when a refresh has failed and no store was completed since the staleness
\* check of the failing request, the cache is stale, and stays so until a
\* store is completed: the next request to make its staleness check calls
\* fetchLatestVideos; no request calls it twice
C11_RetryUnlessOvertaken ==
    /\ [][\A r \in Workers :
            /\ (pc[r] = "L98" /\ pc'[r] # "L98")
                  => /\ lastFetch' = lastFetch
                     /\ lastFailure' = IF storedSince[r] /\ lastFailure # "due"
                                       THEN "overtaken" ELSE "due"
            /\ (Checks(r) /\ lastFailure = "due") => Invokes(r)]_vars
    /\ [](lastFailure = "due" => now - lastFetch > cacheDuration)
    /\ [](\A r \in Workers : (pc[r] = "L98" /\ ~storedSince[r]) => now - lastFetch > cacheDuration)
    /\ [](\A r \in Workers : NoRetryWithin(r))

\* a request failed while a snapshot of an earlier window was cached, its
\* handling is over, and the next request has called fetchLatestVideos
C11_Witness ==
    \E q \in Workers :
        /\ pc[q] = "L131" /\ calls[q] = <<>>
        /\ lastFailure = "due"
        /\ cachedVideos # Nil
        /\ \A r \in Workers \ {q} : pc[r] = "idle"

\* the two outcomes C12 allows: the error alone with status 500, or the
\* whole page alone with status 200
ErrorOutcome(w) ==
    w.status = 500 /\ Len(w.body) = 1 /\ w.body[1].kind = "error"
PageOutcome(w) ==
    w.status = 200 /\ Len(w.body) = 1 /\ w.body[1].kind = "html" /\ w.body[1].whole

\* C12 as stated: a request that has ended has answered either 500 with
\* the error text alone (its refresh failed or its rendering failed) or 200
\* with the rendered page alone, never both page output and an error; it
\* fails when tmpl.Execute returns its error after it has written part of
\* the page to w (lines 113-115 render straight into the ResponseWriter)
C12_OneOutcome ==
    \A r \in Workers :
        pc[r] = "done" =>
            /\ ErrorOutcome(response[r]) \/ PageOutcome(response[r])
            /\ fetchErr[r] => ErrorOutcome(response[r])

(* -------------------------- claims about main ------------------------- *)
\* main has everything the handler needs: the key, the service client and
\* the titles of the channels of every chunk
SetUp ==
    /\ main.tmpl /\ main.apiKey # "" /\ main.svc
    /\ main.chunk = Len(splitChunks(channelIDs, BatchLimit)) + 1
    /\ channelNames = PlatformChannels
    /\ main.failed \in {"", "listen"}

C13_Inv ==
    /\ main.handler => SetUp
    /\ main.listening => main.handler /\ main.failed = ""
    /\ (reqCount > 0 \/ \E r \in Workers : pc[r] # "idle") => main.listening
    /\ main.failed \in {"credential", "service", "channels"}
          => main.pc = "exited" /\ ~main.handler /\ ~main.listening
    /\ main.pc = "exited" <=> main.failed # ""
    /\ (main.env = "" /\ main.pc \notin {"L45", "L50", "L55"}) => main.pc = "exited"

\* C13: the handler is registered and the listener started only when the
\* key was found, the service client built and Channels.List answered for
\* every chunk; no request is handled before the listener is started; when
\* one of the three fails main exits with neither handler nor listener; and
\* the step of godotenv.Load never exits, .env or not
C13_NoPartialService ==
    /\ [] C13_Inv
    /\ [][main.pc = "L45" => main'.pc \in {"L45", "L50"} /\ main'.failed = ""]_vars

\* without a .env file, with the key in the environment, the server serves
\* a request
C13_Witness ==
    /\ main.dotenv = "missing" /\ main.listening
    /\ Len(splitChunks(channelIDs, BatchLimit)) > 1
    /\ \E r \in Workers : pc[r] = "L131"

(* ------------------- claims about mu and the snapshot ----------------- *)
\* worker r makes an upstream call in this step
CallsUpstream(r) == Len(calls'[r]) > Len(calls[r])

C14_Inv ==
    \A r \in Workers :
        /\ (Fetching(r) \/ pc[r] \in {"L98", "L113", "done", "idle"}) => mu # r
        /\ mu = r => pc[r] \in {"L92", "L103", "L104", "L109"}

C14_Step ==
    /\ \A r \in Workers :
          /\ CallsUpstream(r) => mu # r /\ mu' # r
          /\ Checks(r) => mu = r
          /\ (pc[r] = "L109" /\ pc'[r] # "L109") => mu = r
    /\ (cachedVideos' # cachedVideos \/ lastFetch' # lastFetch)
          => \E r \in Workers : mu = r /\ pc'[r] # pc[r]

\* C14: a request inside fetchLatestVideos, and a request making an
\* upstream call, does not hold mu; the steps of the handler that read
\* lastFetch (the staleness check) or cachedVideos (the copy) and the steps
\* that write them are taken by the request that holds mu
C14_NoLockAcrossFetch == [] C14_Inv /\ [][C14_Step]_vars

\* while the detail lookup of one request is in flight, another request
\* holds mu for its copy of the snapshot
C14_Witness ==
    \E r, q \in Workers :
        /\ pc[r] = "L170" /\ calls[r] # <<>>
        /\ pc[q] = "L109" /\ mu = q /\ cachedVideos # Nil

\* the snapshot in cachedVideos comes from a fetch that made its upstream
\* calls after the fetch of worker r had made its last one
CachedIsLater(order, r) ==
    \E i, j \in DOMAIN order : i < j /\ order[i] = r /\ order[j] = "cached"

\* C15 as stated: when several requests refresh at once, no store replaces
\* the snapshot of a later fetch by the snapshot of an earlier one, so that
\* after all of them cachedVideos holds the result of the fetch whose
\* upstream calls were made last; nothing in lines 96-105 orders the stores
\* like the fetches, so this fails
C15_LatestFetchWins ==
    [][\A r \in Workers :
          (pc[r] = "L103" /\ pc'[r] = "L104") => ~CachedIsLater(fetchOrder, r)]_vars

\* C16: as long as no refresh has stored, cachedVideos is the empty (nil)
\* slice and lastFetch is the time of startup less 2 * cacheDuration, which
\* is more than cacheDuration ago; so the first request, and every request
\* that makes its staleness check before a refresh has stored, finds the
\* cache stale and calls fetchLatestVideos
C16_FirstRequestRefreshes ==
    /\ [](stored = {} =>
            /\ cachedVideos = Nil
            /\ lastFetch = 0 - 2 * cacheDuration
            /\ now - lastFetch > cacheDuration)
    /\ [][\A r \in Workers :
            (Checks(r) /\ stored = {})
            => /\ needRefresh'[r] /\ Invokes(r)
               /\ reqCount = 1 => lastInvoked = Never]_vars

\* at startup time the first request failed to refresh, and the second
\* request has called fetchLatestVideos as well
C16_Witness ==
    \E r \in Workers :
        /\ now = 0 /\ stored = {} /\ cachedVideos = Nil
        /\ reqCount = 2 /\ lastFailure = "due"
        /\ pc[r] = "L131" /\ calls[r] = <<>>
        /\ \A q \in Workers \ {r} : pc[q] = "idle"

C17_Inv ==
    /\ \A r \in Workers : pc[r] \in {"L103", "L104"} => mu = r
    /\ mu = NoOne =>
          \/ stored = {} /\ cachedVideos = Nil /\ lastFetch < 0
          \/ stored # {} /\ Deref(heap, cachedVideos) \in stored /\ lastFetch \in 0..now

C17_Step ==
    /\ cachedVideos' # cachedVideos
          => \E r \in Workers : mu = r /\ mu' = r /\ pc[r] = "L103" /\ pc'[r] = "L104"
    /\ lastFetch' # lastFetch
          => \E r \in Workers : mu = r /\ pc[r] = "L104" /\ pc'[r] # "L104"
    /\ \A r \in Workers :
          /\ (pc[r] = "L104" /\ pc'[r] # "L104") => lastFetch' = now /\ mu' = NoOne
          /\ (pc[r] = "L104" /\ pc'[r] = "L104")
                => cachedVideos' = cachedVideos /\ lastFetch' = lastFetch /\ mu' = r
          /\ (mu = r /\ mu' # r /\ pc[r] \in {"L103", "L104"}) => pc[r] = "L104"

\* C17: cachedVideos is written only by the step of line 103 and lastFetch
\* only by the step of line 104, both by the request that holds mu, and mu
\* is held from the first to the second without anything else writing
\* either; the section is left only with lastFetch set to the current time.
\* So whenever mu is free the two belong together: nothing stored and the
\* timestamp of startup, or a stored snapshot and the time of a store
C17_StoreIsOneSection == [] C17_Inv /\ [][C17_Step]_vars

\* a second refresh has just replaced snapshot and timestamp and released mu
C17_Witness ==
    \E r \in Workers :
        /\ mu = NoOne /\ pc[r] = "L108" /\ needRefresh[r]
        /\ cachedVideos = videos[r] /\ lastFetch = now
        /\ now > cacheDuration /\ reqCount > 1

\* the arrays a slice other than toRender of r refers to
OtherRoots(r) ==
    ({cachedVideos} \cup {videos[w] : w \in Workers}
                    \cup {toRender[w] : w \in Workers \ {r}}) \ {Nil}

C18_Inv ==
    \A r \in Workers :
        pc[r] = "L113" => /\ toRender[r] # Nil
                          /\ toRender[r] \notin OtherRoots(r)
                          /\ Deref(heap, toRender[r]) = copied[r]

C18_Step ==
    \A r \in Workers :
        /\ (pc[r] = "L109" /\ pc'[r] = "L113")
              => /\ toRender'[r] \notin Roots(cachedVideos, videos, toRender)
                 /\ Deref(heap', toRender'[r]) = Deref(heap, cachedVideos)
                 /\ cachedVideos' = cachedVideos
                 /\ Deref(heap', cachedVideos) = Deref(heap, cachedVideos)
        /\ (pc[r] = "L113" /\ pc'[r] = "L113")
              => /\ toRender'[r] = toRender[r]
                 /\ Deref(heap', toRender[r]) = Deref(heap, toRender[r])
        /\ (pc[r] = "L113" /\ pc'[r] # "L113")
              => /\ cachedVideos' = cachedVideos
                 /\ Deref(heap', cachedVideos) = Deref(heap, cachedVideos)
                 /\ \A i \in 1..Len(response'[r].body) :
                        response'[r].body[i].kind = "html"
                        => response'[r].body[i].videos = copied[r]

\* C18: the slice given to tmpl.Execute is an array of its own, which no
\* other slice refers to, with the records cachedVideos had when it was
\* copied; it keeps them until the render whatever the other requests store
\* in the meantime, and neither the copy nor the render changes cachedVideos
\* or its array
C18_RendersDefensiveCopy == [] C18_Inv /\ [][C18_Step]_vars

\* a request about to render its copy while another request has stored a
\* different snapshot since the copy was made
C18_Witness ==
    \E r \in Workers :
        /\ pc[r] = "L113"
        /\ copied[r] # <<>>
        /\ copied[r] # Deref(heap, cachedVideos)
        /\ Deref(heap, toRender[r]) = copied[r]

\* the chunks one after the other
RECURSIVE Flatten(_)
Flatten(chunks) ==
    IF chunks = <<>> THEN <<>> ELSE Head(chunks) \o Flatten(Tail(chunks))

\* the places (chunk, index in the chunk) where the id at position p of ids is
PlacesOf(chunks, n, ids, p) ==
    { place \in (DOMAIN chunks) \X (1..n) :
          /\ place[2] <= Len(chunks[place[1]])
          /\ (place[1] - 1) * n + place[2] = p
          /\ chunks[place[1]][place[2]] = ids[p] }

\* C19: splitChunks(ids, n) with n >= 1 returns chunks that are not empty and
\* hold at most n ids, all but the last exactly n; put one after the other
\* they are ids again, so every element of ids (an id listed twice counts
\* twice) is in exactly one chunk; an empty ids gives no chunk. n ranges
\* over the batch limit fetchLatestVideos passes
C19_SplitChunksPartitions ==
    splitCall.returned =>
        LET ids == splitCall.ids
            n == splitCall.n
            chunks == splitCall.chunks
        IN  /\ \A k \in DOMAIN chunks : Len(chunks[k]) \in 1..n
            /\ \A k \in DOMAIN chunks : k < Len(chunks) => Len(chunks[k]) = n
            /\ Flatten(chunks) = ids
            /\ \A p \in DOMAIN ids : Cardinality(PlacesOf(chunks, n, ids, p)) = 1
            /\ ids = <<>> => chunks = <<>>
            /\ Len(chunks) * n \in Len(ids)..(Len(ids) + n - 1)

\* a list that does not divide evenly: two whole chunks and a short last one
C19_Witness ==
    /\ splitCall.returned
    /\ Len(splitCall.ids) = MaxLen
    /\ splitCall.n = 2
    /\ Len(splitCall.chunks) = 3
    /\ Len(splitCall.chunks[3]) = 1

C20_Inv ==
    \A r \in Workers :
        /\ pc[r] \in {"L108", "L109"} => stored # {}
        /\ (pc[r] = "L109" /\ mu = r) => Deref(heap, cachedVideos) \in stored
        /\ pc[r] = "L113" => Deref(heap, toRender[r]) \in stored
        /\ PagesOf(r) \subseteq stored

C20_Step ==
    /\ stored \subseteq stored'
    /\ \A r \in Workers :
          /\ (pc[r] = "L103" /\ pc'[r] = "L104")
                => stored' = stored \cup {Result(r)} /\ ~fetchErr[r]
          /\ (\A q \in Workers : ~(pc[q] = "L103" /\ pc'[q] = "L104")) => stored' = stored
          /\ (pc[r] = "L113" /\ pc'[r] # "L113")
                => PagesOf(r)' \subseteq {Deref(heap, toRender[r])} /\ stored' = stored

\* C20: what a request gives to tmpl.Execute, and what is on the page it
\* has written, is a list that some call of fetchLatestVideos returned
\* without an error and that line 103 had stored before; the empty list
\* only if such a call returned the empty list. The nil cachedVideos of
\* startup, which no call returned, is never rendered
C20_NeverRendersPlaceholder == [] C20_Inv /\ [][C20_Step]_vars

\* the third request did not refresh and has written an empty page: the
\* empty list is what a refresh returned and stored, and nothing else was
C20_Witness ==
    \E r \in Workers :
        /\ pc[r] = "done" /\ ~needRefresh[r]
        /\ response[r].status = 200
        /\ PagesOf(r) = {<<>>}
        /\ stored = {<<>>}
        /\ cachedVideos = Nil
        /\ reqCount = 3

\* worker r refreshed and is rendering or has written its page
RendersOwnRefresh(r) ==
    /\ needRefresh[r]
    /\ pc[r] = "L113" \/ (pc[r] = "done" /\ PagesOf(r) # {})

C21_Inv ==
    \A r \in Workers :
        /\ (needRefresh[r] /\ pc[r] \in {"L104", "L108", "L109"})
              => /\ ownStore[r] \in 1..storeCount
                 /\ storeCount = ownStore[r] => cachedVideos = videos[r]
        /\ RendersOwnRefresh(r)
              => /\ ownStore[r] \in 1..storeCount
                 /\ copiedStore[r] \in ownStore[r]..storeCount
                 /\ copiedStore[r] = ownStore[r] => copied[r] = Result(r)
                 /\ pc[r] = "L113" => Deref(heap, toRender[r]) = copied[r]
                 /\ PagesOf(r) \subseteq {copied[r]}

C21_Step ==
    /\ storeCount' # storeCount
          => \E q \in Workers : /\ pc[q] = "L103" /\ pc'[q] = "L104"
                                /\ storeCount' = storeCount + 1
                                /\ ownStore'[q] = storeCount'
                                /\ cachedVideos' = videos[q]
    /\ cachedVideos' # cachedVideos => storeCount' = storeCount + 1
    /\ \A r \in Workers :
          /\ (pc[r] = "L103" /\ pc'[r] = "L104") => storeCount' = storeCount + 1
          /\ (pc[r] = "L109" /\ pc'[r] = "L113")
                => /\ copiedStore'[r] = storeCount
                   /\ copied'[r] = Deref(heap, cachedVideos)
          /\ (pc[r] \in {"L104", "L108", "L109", "L113"} /\ pc'[r] # "idle")
                => ownStore'[r] = ownStore[r]

\* C21: number the runs of line 103 in the order they happen; cachedVideos
\* always holds what the latest run stored. A request that refreshed and
\* stored with run k copies cachedVideos when k or more runs have happened:
\* what it renders is its own result if no other request has stored since,
\* otherwise what the latest of the later runs stored, and never what was
\* cached before run k
C21_RendersOwnOrLater == [] C21_Inv /\ [][C21_Step]_vars

\* a request that stored its own result is about to render a different
\* snapshot, which another request stored between its store and its copy
C21_Witness ==
    \E r \in Workers :
        /\ needRefresh[r] /\ pc[r] = "L113"
        /\ copiedStore[r] > ownStore[r]
        /\ copied[r] # Result(r)

\* the lines at which the handler holds mu
Holding == {"L92", "L103", "L104", "L109"}

\* worker r has answered its request
Responded(r) == pc[r] = "done" /\ response[r].status \in {200, 500}

C22_Inv ==
    /\ \A r \in Workers :
          /\ mu = r <=> pc[r] \in Holding
          /\ pc[r] = "L98" => mu # r /\ fetchErr[r]
          /\ pc[r] = "done" => Responded(r)
    /\ (\E r \in Workers : pc[r] # "idle") => ENABLED (\E r \in Workers : Handler(r))

\* C22: mu is held exactly between a mu.Lock() and the mu.Unlock() that
\* follows it (lines 91-93, 102-105, 108-111); the return after a failed
\* refresh happens with mu not held; while a request is in the handler some
\* request can take a step, and the handler returns only with its response
\* written. With every enabled step taken in the end, mu is released
\* whenever it was taken and every request in the handler returns
C22_EveryRequestResponds ==
    /\ [] C22_Inv
    /\ [][\A r \in Workers : (pc[r] # "idle" /\ pc'[r] = "idle") => Responded(r)]_vars
    /\ (mu # NoOne) ~> (mu = NoOne)
    /\ \A r \in Workers : (pc[r] # "idle") ~> (pc[r] = "idle")

\* two requests in the handler at once: one waits in mu.Lock() of line 108
\* after its own store while the other holds mu and is about to store
C22_Witness ==
    \E r, q \in Workers :
        /\ pc[r] = "L108" /\ needRefresh[r]
        /\ pc[q] = "L103" /\ mu = q
        /\ ownStore[r] = 1 /\ storeCount = 1

====
